---- MODULE Spec2Model ----
(***************************************************************************)
(* Race-telemetry dashboard (frontend/app/page.tsx): the page-level        *)
(* Dashboard component, its polling controller (fetchRaceInfo,             *)
(* fetchNextLap, startRace, toggleRace, the 3-second interval effect) and  *)
(* the display mapper (displayData).                                       *)
(*                                                                         *)
(* React state is modelled by one variable per useState cell.  Every       *)
(* asynchronous handler is cut at its awaits: the part before the await    *)
(* that sends a request is one action, the continuation that runs when     *)
(* the response is delivered is another.  All setState calls of one        *)
(* continuation are applied together.  The backend is an opaque            *)
(* collaborator: the content of a response is chosen when it is delivered. *)
(***************************************************************************)
EXTENDS Integers, Sequences, FiniteSets, TLC

VARIABLES
    raceInfo,        \* useState<RaceInfo | null>      page.tsx:47
    currentLap,      \* useState<RaceData | null>      page.tsx:48
    lapTimeHistory,  \* useState<{lap, time}[]>        page.tsx:49
    isRaceActive,    \* useState(false)                page.tsx:50
    raceStatus,      \* useState('Ready')              page.tsx:51
    error,           \* useState<string | null>        page.tsx:52
    infoPending,     \* GET /api/race/info sent on mount and not yet answered
    feedRequests,    \* GET /api/feed requests in flight, in the order issued
    pendingStart,    \* startRace invocations waiting for POST /api/reset
    timers,          \* intervals armed by the auto-advance effect and not cleared
    isWarningFlashEnabled,  \* useState(true)         FlagComponent.tsx:14
    lastOp           \* the handler (and the response it consumed) that ran last

vars == <<raceInfo, currentLap, lapTimeHistory, isRaceActive, raceStatus,
          error, infoPending, feedRequests, pendingStart, timers,
          isWarningFlashEnabled, lastOp>>

----------------------------------------------------------------------------
(* Bounds of the model *)

MaxHist == 2          \* longest lap-time history explored
MaxInFlight == 2      \* most feed requests in flight at once
MaxPendingStart == 2  \* most startRace invocations awaiting their reset

----------------------------------------------------------------------------
(* Values *)

Null == "null"
RaceInfoData == "raceInfo"     \* the RaceInfo object of a successful load
NullLap == [null |-> TRUE]     \* currentLap === null

Laps == {1, 2}
LapTimes == {0, 90}
FeedStatuses == {"Ready", "Active"}
FlagStatuses == {"None", "Yellow", "Red", "Safety Car"}
DeltaMessages == {"PUSH", "WARNING"}
IncidentMessages == {"", "Debris on track"}

\* track_temp in whole degrees Celsius
TrackTemps == {-10, 0, 20, 37, 41}

\* a confidence score in thousandths: 333 stands for 0.333
ConfidenceValues == {100, 333, 334}
Confidences ==
    [AGGRESSIVE: ConfidenceValues, NEUTRAL: ConfidenceValues,
     DEFENSIVE: ConfidenceValues]
NoConfidence == [missing |-> TRUE]     \* a snapshot without ML_Confidence
Recommendations == {"", "Aggressive", "Neutral", "Defense"}

\* the display fields of a snapshot that are not being varied
PlainDisplay ==
    [track_temp |-> 20,
     ML_Confidence |-> [AGGRESSIVE |-> 100, NEUTRAL |-> 800, DEFENSIVE |-> 100],
     ML_Recommendation |-> "Neutral"]

\* RaceData, the fields the page reads (page.tsx:14-35)
RaceData(laps, times, statuses, flags, deltas, incidents) ==
    {[current_lap |-> l, raw_lap_time |-> t, status |-> s,
      flag_status |-> f, delta_message |-> d, incident_message |-> i,
      track_temp |-> PlainDisplay.track_temp,
      ML_Confidence |-> PlainDisplay.ML_Confidence,
      ML_Recommendation |-> PlainDisplay.ML_Recommendation] :
        l \in laps, t \in times, s \in statuses,
        f \in flags, d \in deltas, i \in incidents}

\* one snapshot of a running race, the base of the display families
PlainSnapshot ==
    CHOOSE d \in RaceData({1}, {90}, {"Active"}, {"None"}, {"PUSH"}, {""}) : TRUE

TemperatureSnapshots ==
    {[PlainSnapshot EXCEPT !.track_temp = c] : c \in TrackTemps}

StrategySnapshots ==
    {[PlainSnapshot EXCEPT !.ML_Confidence = c] :
        c \in Confidences \cup {NoConfidence}}

\* snapshots the feed delivers while the race lifecycle is explored
FeedSnapshots ==
    RaceData(Laps, LapTimes, FeedStatuses, {"None"}, {"PUSH"}, {""})

RecommendationSnapshots ==
    {[PlainSnapshot EXCEPT !.ML_Recommendation = r] : r \in Recommendations}

\* snapshots the feed delivers while the display mapper is explored
DisplaySnapshots ==
    RaceData({1}, {90}, {"Active"}, FlagStatuses, DeltaMessages, IncidentMessages)
        \cup TemperatureSnapshots \cup StrategySnapshots
        \cup RecommendationSnapshots

\* HTTP outcomes of a feed request: status 0 stands for a rejected fetch()
\* (network error); bodyOk = FALSE for a body that cannot be read or parsed
FeedStatusCodes == {0, 200, 404, 410, 500}
FeedResponses ==
    {r \in [status: FeedStatusCodes, bodyOk: BOOLEAN] : r.status = 0 => ~r.bodyOk}

ResponseOk(status) == status >= 200 /\ status <= 299

\* error messages
MetadataError == "Failed to load race metadata"
ThrownError == "Failed to fetch"
\* the message of the Error thrown for a non-2xx status other than 410; for 404
\* it replaces, in the same continuation, the 'API Endpoint Not Found' message
\* set just before the throw (page.tsx:96-99, 107, 126)
ApiError(status) == IF status = 404 THEN "API Error: 404"
                    ELSE IF status = 410 THEN "API Error: 410"
                    ELSE "API Error: 500"

\* what lastOp records: the handler, the HTTP status and readability of the
\* response it consumed, and one handler-specific flag (startRace: raceInfo was
\* loaded in the render it was created in; fetchNextLap: the request was issued
\* before the latest restart; toggleRace: isRaceActive before the toggle);
\* late: the response of a feed request that a later-issued request overtook;
\* data: the snapshot a successful feed response carried
Op(name, status, ok, flag) ==
    [op |-> name, status |-> status, ok |-> ok, flag |-> flag, late |-> FALSE,
     data |-> NullLap]

----------------------------------------------------------------------------
(* Initial state: the component has mounted and the metadata request of the
   mount effect is in flight *)

Init ==
    /\ raceInfo = Null
    /\ currentLap = NullLap
    /\ lapTimeHistory = <<>>
    /\ isRaceActive = FALSE
    /\ raceStatus = "Ready"
    /\ error = Null
    /\ infoPending = TRUE
    /\ feedRequests = <<>>
    /\ pendingStart = [loaded \in BOOLEAN |-> 0]
    /\ timers = 0
    /\ isWarningFlashEnabled = TRUE
    /\ lastOp = Op("mount", 0, TRUE, FALSE)

----------------------------------------------------------------------------
(* Controls offered by the header *)

StartVisible == ~isRaceActive /\ raceStatus # "Race Finished"

PauseVisible ==
    currentLap # NullLap /\ raceStatus # "Race Finished" /\ isRaceActive

ResumeVisible ==
    /\ currentLap # NullLap /\ raceStatus # "Race Finished"
    /\ ~isRaceActive /\ raceStatus # "Ready"

RestartVisible == raceStatus = "Race Finished"

----------------------------------------------------------------------------
(* The auto-advance effect (page.tsx:148-156).  It runs again whenever
   isRaceActive or fetchNextLap (that is, raceInfo) has changed: the cleanup of
   the previous run clears the interval that run armed, then a new interval is
   armed when the race is active. *)

EffectKeepsInterval(armed, active) == armed + (IF active THEN 1 ELSE 0)

Effect(armed, active) ==
    LET cleared == armed    \* clearInterval of the cleanup
    IN  (armed - cleared) + (IF active THEN 1 ELSE 0)

----------------------------------------------------------------------------
(* fetchRaceInfo: the continuation of GET /api/race/info *)

fetchRaceInfoOk ==
    /\ infoPending
    /\ infoPending' = FALSE
    /\ raceInfo' = RaceInfoData
    /\ timers' = Effect(timers, isRaceActive)
    /\ lastOp' = Op("fetchRaceInfo", 200, TRUE, TRUE)
    /\ UNCHANGED <<currentLap, lapTimeHistory, isRaceActive, raceStatus,
                   error, feedRequests, pendingStart>>
    /\ UNCHANGED isWarningFlashEnabled

fetchRaceInfoFail ==
    /\ infoPending
    /\ infoPending' = FALSE
    /\ error' = MetadataError
    /\ lastOp' = Op("fetchRaceInfo", 500, FALSE, FALSE)
    /\ UNCHANGED <<raceInfo, currentLap, lapTimeHistory, isRaceActive,
                   raceStatus, feedRequests, pendingStart, timers>>
    /\ UNCHANGED isWarningFlashEnabled

----------------------------------------------------------------------------
(* fetchNextLap *)

IssueFeedGuarded(capturedInfo, requests) ==
    IF capturedInfo = Null \/ requests # <<>> THEN requests
    ELSE Append(requests, [beforeRestart |-> FALSE, overtaken |-> FALSE])

\* the synchronous part: the guard on the captured raceInfo, then the request
IssueFeed(capturedInfo, requests) ==
    IF capturedInfo = Null THEN requests
    ELSE Append(requests, [beforeRestart |-> FALSE, overtaken |-> FALSE])

RemoveAt(s, i) == [j \in 1..(Len(s) - 1) |-> IF j < i THEN s[j] ELSE s[j + 1]]

\* the requests left in flight once the i-th has been answered: those issued
\* before it have been overtaken
Answered(requests, i) ==
    RemoveAt([j \in 1..Len(requests) |->
                 IF j < i THEN [requests[j] EXCEPT !.overtaken = TRUE]
                 ELSE requests[j]], i)

AppendLapFirst(history, data) ==
    IF data.raw_lap_time > 0
    THEN <<[lap |-> data.current_lap, time |-> data.raw_lap_time]>> \o history
    ELSE history

AppendLapNonNegative(history, data) ==
    IF data.raw_lap_time >= 0
    THEN Append(history, [lap |-> data.current_lap, time |-> data.raw_lap_time])
    ELSE history

\* the history after a snapshot has been received
AppendLap(history, data) ==
    IF data.raw_lap_time > 0
    THEN Append(history, [lap |-> data.current_lap, time |-> data.raw_lap_time])
    ELSE history

FeedDataIfActive(data) ==
    IF isRaceActive
    THEN /\ currentLap' = data
         /\ raceStatus' = data.status
         /\ lapTimeHistory' = AppendLap(lapTimeHistory, data)
         /\ error' = Null
         /\ UNCHANGED <<isRaceActive, timers>>
    ELSE UNCHANGED <<currentLap, raceStatus, lapTimeHistory, error,
                     isRaceActive, timers>>

FeedDataKeepsIncomplete(data) ==
    /\ currentLap' = IF data.raw_lap_time > 0 THEN data ELSE currentLap
    /\ raceStatus' = data.status
    /\ lapTimeHistory' = AppendLap(lapTimeHistory, data)
    /\ error' = Null
    /\ UNCHANGED <<isRaceActive, timers>>

\* the success path: page.tsx:110-123
FeedData(data) ==
    /\ currentLap' = data
    /\ raceStatus' = data.status
    /\ lapTimeHistory' = AppendLap(lapTimeHistory, data)
    /\ error' = Null
    /\ UNCHANGED <<isRaceActive, timers>>

FeedGoneClears ==
    /\ isRaceActive' = FALSE
    /\ timers' = Effect(timers, FALSE)
    /\ raceStatus' = "Race Finished"
    /\ currentLap' = NullLap
    /\ UNCHANGED <<lapTimeHistory, error>>

\* the end-of-race branch: page.tsx:101-105
FeedGone ==
    /\ isRaceActive' = FALSE
    /\ timers' = Effect(timers, FALSE)
    /\ raceStatus' = "Race Finished"
    /\ UNCHANGED <<currentLap, lapTimeHistory, error>>

FeedCatchKeepsPolling(message) ==
    /\ error' = message
    /\ UNCHANGED <<isRaceActive, timers, currentLap, lapTimeHistory, raceStatus>>

\* the catch block: page.tsx:124-128
FeedCatch(message) ==
    /\ error' = message
    /\ isRaceActive' = FALSE
    /\ timers' = Effect(timers, FALSE)
    /\ UNCHANGED <<currentLap, lapTimeHistory, raceStatus>>

\* the continuation of GET /api/feed for the i-th request in flight, answered
\* by response r carrying (when it is a readable 2xx) the snapshot data
fetchNextLapResponse(i, r, data) ==
    /\ i \in 1..Len(feedRequests)
    /\ feedRequests' = Answered(feedRequests, i)
    /\ lastOp' = [Op("fetchNextLap", r.status, r.bodyOk,
                      feedRequests[i].beforeRestart)
                   EXCEPT !.late = feedRequests[i].overtaken,
                          !.data = IF ResponseOk(r.status) /\ r.bodyOk
                                   THEN data ELSE NullLap]
    /\ UNCHANGED <<raceInfo, infoPending, pendingStart>>
    /\ IF r.status = 0 THEN FeedCatch(ThrownError)
       ELSE IF ~ResponseOk(r.status)
            THEN IF ~r.bodyOk THEN FeedCatch(ThrownError)
                 ELSE IF r.status = 410 THEN FeedGone
                 ELSE FeedCatch(ApiError(r.status))
       ELSE IF ~r.bodyOk THEN FeedCatch(ThrownError)
       ELSE FeedData(data)
    /\ UNCHANGED isWarningFlashEnabled

----------------------------------------------------------------------------
(* startRace *)

\* Start Race / Restart pressed: POST /api/reset is sent; the invocation keeps
\* the fetchNextLap (and so the raceInfo) of the render it was created in
startRaceClick ==
    /\ StartVisible \/ RestartVisible
    /\ pendingStart[TRUE] + pendingStart[FALSE] < MaxPendingStart
    /\ pendingStart' = [pendingStart EXCEPT ![raceInfo # Null] = @ + 1]
    /\ lastOp' = Op("startRaceClick", 0, TRUE, raceInfo # Null)
    /\ UNCHANGED <<raceInfo, currentLap, lapTimeHistory, isRaceActive,
                   raceStatus, error, infoPending, feedRequests, timers>>
    /\ UNCHANGED isWarningFlashEnabled

MarkBeforeRestart(requests) ==
    [j \in 1..Len(requests) |-> [requests[j] EXCEPT !.beforeRestart = TRUE]]

StartLapKept == currentLap

\* the snapshot and history a (re)started race begins with
StartLap == NullLap
StartHistoryKept == lapTimeHistory

StartHistory == <<>>
StartError == Null

\* the continuation after POST /api/reset has succeeded or failed
startRaceDone(loaded, resetOk) ==
    /\ pendingStart[loaded] > 0
    /\ loaded => Len(feedRequests) < MaxInFlight
    /\ pendingStart' = [pendingStart EXCEPT ![loaded] = @ - 1]
    /\ isRaceActive' = TRUE
    /\ timers' = Effect(timers, TRUE)
    /\ lapTimeHistory' = StartHistory
    /\ currentLap' = StartLap
    /\ error' = StartError
    /\ feedRequests' = IssueFeed(IF loaded THEN RaceInfoData ELSE Null,
                                 MarkBeforeRestart(feedRequests))
    /\ lastOp' = Op("startRace", IF resetOk THEN 200 ELSE 500, resetOk, loaded)
    /\ UNCHANGED <<raceInfo, raceStatus, infoPending>>
    /\ UNCHANGED isWarningFlashEnabled

----------------------------------------------------------------------------
(* toggleRace: Pause / Resume *)

ToggledStuck(active) == FALSE

Toggled(active) == ~active

toggleRace ==
    /\ PauseVisible \/ ResumeVisible
    /\ isRaceActive' = Toggled(isRaceActive)
    /\ timers' = Effect(timers, isRaceActive')
    /\ lastOp' = Op("toggleRace", 0, TRUE, isRaceActive)
    /\ UNCHANGED <<raceInfo, currentLap, lapTimeHistory, raceStatus, error,
                   infoPending, feedRequests, pendingStart>>
    /\ UNCHANGED isWarningFlashEnabled

----------------------------------------------------------------------------
(* The interval effect: while isRaceActive, fetchNextLap every 3 seconds *)

TimerArmedAlways == TRUE

TimerArmed == timers > 0

Tick ==
    /\ TimerArmed
    /\ raceInfo # Null => Len(feedRequests) < MaxInFlight
    /\ feedRequests' = IssueFeed(raceInfo, feedRequests)
    /\ lastOp' = Op("tick", 0, TRUE, raceInfo # Null)
    /\ UNCHANGED <<raceInfo, currentLap, lapTimeHistory, isRaceActive,
                   raceStatus, error, infoPending, pendingStart, timers>>
    /\ UNCHANGED isWarningFlashEnabled

----------------------------------------------------------------------------
(* The Warning Flash checkbox of the flag panel (FlagComponent.tsx:75-79) *)

toggleWarningFlash ==
    /\ isWarningFlashEnabled' = ~isWarningFlashEnabled
    /\ lastOp' = Op("toggleWarningFlash", 0, TRUE, isWarningFlashEnabled)
    /\ UNCHANGED <<raceInfo, currentLap, lapTimeHistory, isRaceActive,
                   raceStatus, error, infoPending, feedRequests, pendingStart,
                   timers>>

----------------------------------------------------------------------------
(* Specifications *)

GoodResponse == [status |-> 200, bodyOk |-> TRUE]

\* snapshots of the set that still fit the explored history length
Fits(snapshots) ==
    {d \in snapshots : d.raw_lap_time > 0 => Len(lapTimeHistory) < MaxHist}

FeedSuccess(snapshots) ==
    \E i \in 1..Len(feedRequests) : \E d \in Fits(snapshots) :
        fetchNextLapResponse(i, GoodResponse, d)

FeedFailure ==
    \E i \in 1..Len(feedRequests) : \E r \in FeedResponses \ {GoodResponse} :
        fetchNextLapResponse(i, r, NullLap)

StartRaceDone == \E loaded \in BOOLEAN : \E resetOk \in BOOLEAN :
                    startRaceDone(loaded, resetOk)

Next ==
    \/ fetchRaceInfoOk
    \/ fetchRaceInfoFail
    \/ startRaceClick
    \/ StartRaceDone
    \/ toggleRace
    \/ Tick
    \/ FeedSuccess(FeedSnapshots)
    \/ FeedFailure

Spec == Init /\ [][Next]_vars

\* the display mapper over every flag, delta and incident value: the same
\* handlers, fed by a backend that answers every request with a snapshot
NextDisplay ==
    \/ fetchRaceInfoOk
    \/ startRaceClick
    \/ StartRaceDone
    \/ toggleRace
    \/ Tick
    \/ FeedSuccess(DisplaySnapshots)

SpecDisplay == Init /\ [][NextDisplay]_vars

\* the snapshots of a polling session: a lap in progress or a completed lap
PollingSnapshots == RaceData({1}, LapTimes, {"Active"}, {"None"}, {"PUSH"}, {""})

\* a feed request in flight is answered: the fetch resolves or rejects
Answer == FeedSuccess(PollingSnapshots) \/ FeedFailure

NextPolling ==
    \/ fetchRaceInfoOk
    \/ fetchRaceInfoFail
    \/ startRaceClick
    \/ StartRaceDone
    \/ toggleRace
    \/ Tick
    \/ Answer

\* the event loop runs the interval callback of an armed timer again and
\* again, and every fetch in flight settles
SpecPolling ==
    Init /\ [][NextPolling]_vars /\ WF_vars(Tick) /\ WF_vars(Answer)

\* the flag panel alone: the same handlers fed with every flag and incident
\* value, and the Warning Flash checkbox of the panel
FlagSnapshots ==
    RaceData({1}, {90}, {"Active"}, FlagStatuses, DeltaMessages, IncidentMessages)

NextFlag ==
    \/ fetchRaceInfoOk
    \/ startRaceClick
    \/ StartRaceDone
    \/ toggleRace
    \/ Tick
    \/ FeedSuccess(FlagSnapshots)
    \/ toggleWarningFlash

SpecFlag == Init /\ [][NextFlag]_vars

TypeOK ==
    /\ raceInfo \in {Null, RaceInfoData}
    /\ currentLap \in {NullLap} \cup FeedSnapshots \cup DisplaySnapshots
    /\ Len(lapTimeHistory) <= MaxHist
    /\ isRaceActive \in BOOLEAN
    /\ Len(feedRequests) <= MaxInFlight
    /\ timers \in 0..1
    /\ isWarningFlashEnabled \in BOOLEAN

----------------------------------------------------------------------------
(* Display mapper: displayData of the current render (page.tsx:168-227) *)

\* the classification of the older revision of the page (getFlagType), which
\* reads the delta message and the active flag
flagTypeFromDelta ==
    IF currentLap = NullLap THEN "none"
    ELSE IF currentLap.delta_message = "YELLOW" THEN "yellow"
    ELSE IF currentLap.delta_message = "RED" THEN "red"
    ELSE IF currentLap.delta_message = "WARNING" /\ isRaceActive THEN "yellow"
    ELSE "none"

flagType ==
    IF currentLap = NullLap THEN "none"
    ELSE IF currentLap.flag_status = "Yellow" \/ currentLap.flag_status = "Safety Car"
         THEN "yellow"
    ELSE IF currentLap.flag_status = "Red" THEN "red"
    ELSE "none"

\* displayData.incidentMessage
incidentMessage ==
    IF currentLap = NullLap THEN "" ELSE currentLap.incident_message

\* the page header's banner rule (page.tsx:301), which ignores the flag
FlagPanelBanner ==
    [blinkClass |-> IF flagType \in {"red", "yellow"} /\ isWarningFlashEnabled
                    THEN "animate-blink" ELSE "",
     incident |-> incidentMessage # ""]

\* what FlagComponent renders from its props and its local toggle: the blink
\* class of getFlagStyles and whether the incident message is rendered
FlagPanel ==
    [blinkClass |-> CASE flagType = "red" ->
                           IF isWarningFlashEnabled THEN "animate-blink" ELSE ""
                      [] flagType = "yellow" ->
                           IF isWarningFlashEnabled THEN "animate-blink" ELSE ""
                      [] OTHER -> "",
     incident |-> incidentMessage # "" /\ flagType # "none"]

\* Math.round of a value given in tenths: the nearest integer, halves upwards
MathRound(tenths) == (tenths + 5) \div 10

celsiusToFahrenheitTruncated(celsius) == ((celsius * 18) + 320) \div 10

\* Math.round((celsius * 9/5) + 32); celsius * 9/5 + 32 is (18 celsius + 320)/10
celsiusToFahrenheit(celsius) == MathRound((celsius * 18) + 320)

\* displayData.temperature
temperature ==
    [fahrenheit |-> IF currentLap = NullLap THEN 0
                    ELSE celsiusToFahrenheit(currentLap.track_temp),
     celsius |-> IF currentLap = NullLap THEN 0 ELSE currentLap.track_temp]

PercentCeil(score) == (score + 9) \div 10

\* Math.round((score || 0) * 100) of a score in thousandths: score * 100 is
\* score/10 percent
Percent(score) == MathRound(score)

\* displayData.strategyConfidence
strategyConfidence ==
    IF currentLap = NullLap
    THEN [aggressive |-> 10, neutral |-> 60, defensive |-> 30,
          recommended |-> "N/A"]
    ELSE LET confidenceScores ==
                 IF currentLap.ML_Confidence = NoConfidence
                 THEN [AGGRESSIVE |-> 100, NEUTRAL |-> 600, DEFENSIVE |-> 300]
                 ELSE currentLap.ML_Confidence
         IN  [aggressive |-> Percent(confidenceScores.AGGRESSIVE),
              neutral |-> Percent(confidenceScores.NEUTRAL),
              defensive |-> Percent(confidenceScores.DEFENSIVE),
              recommended |-> IF currentLap.ML_Recommendation = "" THEN "N/A"
                              ELSE currentLap.ML_Recommendation]

----------------------------------------------------------------------------
(* Strategy panel (components/StrategyRecommendation.tsx) *)

MathMax(a, b, c) ==
    IF a >= b /\ a >= c THEN a ELSE IF b >= c THEN b ELSE c

findFirstHighest(strategyObj) ==
    LET max == MathMax(strategyObj.aggressive, strategyObj.neutral,
                       strategyObj.defensive)
    IN  [aggressive |-> strategyObj.aggressive = max,
         neutral |-> strategyObj.neutral = max
                        /\ strategyObj.aggressive # max,
         defensive |-> strategyObj.defensive = max
                        /\ strategyObj.aggressive # max
                        /\ strategyObj.neutral # max]

findHighestStrategies(strategyObj) ==
    LET max == MathMax(strategyObj.aggressive, strategyObj.neutral,
                       strategyObj.defensive)
    IN  [aggressive |-> strategyObj.aggressive = max,
         neutral |-> strategyObj.neutral = max,
         defensive |-> strategyObj.defensive = max]

getBarColorAlways(name, isHighest) ==
    IF name = "Aggressive" THEN "bg-red-500"
    ELSE IF name = "Defensive" THEN "bg-yellow-500"
    ELSE "bg-blue-500"

getBarColor(name, isHighest) ==
    IF ~isHighest THEN "bg-gray-500"
    ELSE IF name = "Aggressive" THEN "bg-red-500"
    ELSE IF name = "Defensive" THEN "bg-yellow-500"
    ELSE "bg-blue-500"

\* what the panel renders for the view-model of the current render: the
\* recommendation label and, per class, the bar's colour and fill width in
\* percent
StrategyPanel ==
    LET strategy == strategyConfidence
        highestStrategies == findHighestStrategies(strategy)
    IN  [label |-> IF strategy.recommended = "" THEN "AWAITING DATA"
                   ELSE strategy.recommended,
         aggressive |-> [color |-> getBarColor("Aggressive",
                                               highestStrategies.aggressive),
                         width |-> strategy.aggressive],
         neutral |-> [color |-> getBarColor("Neutral", highestStrategies.neutral),
                      width |-> strategy.neutral],
         defensive |-> [color |-> getBarColor("Defensive",
                                              highestStrategies.defensive),
                        width |-> strategy.defensive]]

----------------------------------------------------------------------------
(* Properties *)

FeedSucceeded(o) == o.op = "fetchNextLap" /\ o.status = 200 /\ o.ok

\* a feed fetch that failed in a way other than HTTP 410
FeedFailed(o) ==
    /\ o.op = "fetchNextLap"
    /\ o.status # 410
    /\ ~(ResponseOk(o.status) /\ o.ok)

IsPrefix(s, t) == Len(s) <= Len(t) /\ \A k \in 1..Len(s) : s[k] = t[k]

\* C1: a received snapshot with raw_lap_time > 0 makes the history exactly one
\* entry longer, keeps the previous entries as a prefix, and the new last entry
\* is (current_lap, raw_lap_time) of that snapshot
C1_AppendsValidLap ==
    [][(FeedSucceeded(lastOp') /\ currentLap'.raw_lap_time > 0) =>
          /\ Len(lapTimeHistory') = Len(lapTimeHistory) + 1
          /\ IsPrefix(lapTimeHistory, lapTimeHistory')
          /\ lapTimeHistory'[Len(lapTimeHistory')] =
                [lap |-> currentLap'.current_lap, time |-> currentLap'.raw_lap_time]
      ]_vars

\* a valid lap has just been appended behind an earlier entry
C1_Witness ==
    /\ FeedSucceeded(lastOp)
    /\ currentLap # NullLap
    /\ currentLap.raw_lap_time > 0
    /\ Len(lapTimeHistory) >= 2
    /\ lapTimeHistory[Len(lapTimeHistory)].lap = currentLap.current_lap
    /\ lapTimeHistory[1].lap # currentLap.current_lap

\* C2: a received snapshot with raw_lap_time <= 0 leaves the history unchanged,
\* and every entry ever present in the history has time > 0
C2_SkipsIncompleteLap ==
    /\ [](\A k \in 1..Len(lapTimeHistory) : lapTimeHistory[k].time > 0)
    /\ [][(FeedSucceeded(lastOp') /\ currentLap'.raw_lap_time <= 0) =>
             lapTimeHistory' = lapTimeHistory]_vars

\* a snapshot without a valid lap time has just been received while the history
\* already held an entry
C2_Witness ==
    /\ FeedSucceeded(lastOp)
    /\ currentLap # NullLap
    /\ currentLap.raw_lap_time <= 0
    /\ Len(lapTimeHistory) >= 1

\* C3: when startRace completes the history is empty and the current snapshot
\* is null, whatever the state before and whether or not the reset succeeded
C3_StartClears ==
    [][lastOp'.op = "startRace" =>
          lapTimeHistory' = <<>> /\ currentLap' = NullLap]_vars

\* a restart from the finished state whose reset request failed
C3_Witness ==
    /\ lastOp.op = "startRace"
    /\ ~lastOp.ok
    /\ raceStatus = "Race Finished"
    /\ lapTimeHistory = <<>>
    /\ currentLap = NullLap

\* C4: after a feed response with HTTP status 410 has been processed the status
\* is 'Race Finished', the race is inactive and the error state is empty
C4_GoneFinishesWithoutError ==
    [][(lastOp'.op = "fetchNextLap" /\ lastOp'.status = 410 /\ lastOp'.ok) =>
          /\ raceStatus' = "Race Finished"
          /\ ~isRaceActive'
          /\ error' = Null
      ]_vars

\* C5: after a feed fetch has failed other than by HTTP 410 the race is
\* inactive and the error state holds the message of that failure
C5_FailureDeactivates ==
    [][FeedFailed(lastOp') =>
          /\ ~isRaceActive'
          /\ error' # Null
          /\ error' = IF lastOp'.status # 0 /\ lastOp'.ok
                      THEN ApiError(lastOp'.status) ELSE ThrownError
      ]_vars

\* a feed request has just failed with a server error while the race was
\* running with laps on record
C5_Witness ==
    /\ FeedFailed(lastOp)
    /\ lastOp.status = 500
    /\ ~isRaceActive
    /\ error = ApiError(500)
    /\ lapTimeHistory # <<>>

\* C6: every startRace resets the history and the error state, activates the
\* race and issues a feed request at once
C6_StartFetchesAtOnce ==
    [][lastOp'.op = "startRace" =>
          /\ lapTimeHistory' = <<>>
          /\ error' = Null
          /\ isRaceActive'
          /\ Len(feedRequests') = Len(feedRequests) + 1
      ]_vars

\* C7: toggleRace flips isRaceActive and changes nothing else; two consecutive
\* toggles restore the original isRaceActive
C7_ToggleOnlyFlips ==
    [][lastOp'.op = "toggleRace" =>
          /\ isRaceActive' = ~isRaceActive
          /\ UNCHANGED <<lapTimeHistory, currentLap, raceStatus, error, raceInfo>>
          /\ lastOp.op = "toggleRace" => isRaceActive' = lastOp.flag
      ]_vars

\* Resume has just been pressed, with laps on record
C7_Witness ==
    /\ lastOp.op = "toggleRace"
    /\ ~lastOp.flag
    /\ isRaceActive
    /\ lapTimeHistory # <<>>
    /\ currentLap # NullLap

\* C8: once the race is finished it stays finished and inactive until a
\* restart, which clears the history; no other event leaves Finished
C8_FinishedUntilRestart ==
    [][(raceStatus = "Race Finished" /\ ~isRaceActive) =>
          IF lastOp'.op = "startRace"
          THEN lapTimeHistory' = <<>>
          ELSE raceStatus' = "Race Finished" /\ ~isRaceActive'
      ]_vars

\* C9 as stated: once a feed failure has stopped the polling, a feed request is
\* issued and polling resumes only through startRace (Start or Restart)
C9_ResumesOnlyByStart ==
    [][(error # Null /\ ~isRaceActive) =>
          /\ isRaceActive' => lastOp'.op = "startRace"
          /\ Len(feedRequests') > Len(feedRequests) => lastOp'.op = "startRace"
      ]_vars

\* C9 amended: once a feed failure has stopped the polling, no feed request is
\* issued by the timer, and polling resumes only through a user action:
\* startRace (Start or Restart) or toggleRace (Resume)
C9_ResumesOnlyByUser ==
    [][(error # Null /\ ~isRaceActive) =>
          /\ isRaceActive' => lastOp'.op \in {"startRace", "toggleRace"}
          /\ Len(feedRequests') > Len(feedRequests) => lastOp'.op = "startRace"
      ]_vars

\* Resume pressed while the error of a failed feed fetch is still recorded
C9_Witness ==
    /\ lastOp.op = "toggleRace"
    /\ error \in {ThrownError, ApiError(404), ApiError(500)}
    /\ isRaceActive

\* C10: the flag classification is a function of flag_status alone: Yellow and
\* Safety Car give yellow, Red gives red, anything else and no snapshot give none
C10_FlagClassification ==
    flagType = IF currentLap = NullLap THEN "none"
               ELSE CASE currentLap.flag_status = "Yellow" -> "yellow"
                      [] currentLap.flag_status = "Red" -> "red"
                      [] currentLap.flag_status = "Safety Car" -> "yellow"
                      [] OTHER -> "none"

\* a running race whose snapshot carries a warning delta and an incident
\* message under no flag
C10_Witness ==
    /\ currentLap # NullLap
    /\ currentLap.flag_status = "None"
    /\ currentLap.delta_message = "WARNING"
    /\ currentLap.incident_message # ""
    /\ isRaceActive
    /\ flagType = "none"

HasConfidence == currentLap # NullLap /\ currentLap.ML_Confidence # NoConfidence

\* the confidence total of the current snapshot, in thousandths
ConfidenceTotal ==
    currentLap.ML_Confidence.AGGRESSIVE + currentLap.ML_Confidence.NEUTRAL
        + currentLap.ML_Confidence.DEFENSIVE

\* the sum of the three displayed percentages
DisplayedTotal ==
    strategyConfidence.aggressive + strategyConfidence.neutral
        + strategyConfidence.defensive

Distance(a, b) == IF a >= b THEN a - b ELSE b - a

\* C11 as stated: the displayed percentages sum to the total of the confidence
\* values they were computed from, expressed in percent
C11_SumPreserved ==
    HasConfidence => DisplayedTotal * 10 = ConfidenceTotal

\* C11 amended: each displayed percentage is its own confidence times 100
\* rounded to the nearest integer; the sum equals the given total when every
\* confidence is a whole number of percent, and is otherwise within 1.5 of it
C11_RoundedPerClass ==
    HasConfidence =>
        LET c == currentLap.ML_Confidence
            s == strategyConfidence
        IN  /\ Distance(s.aggressive * 10, c.AGGRESSIVE) <= 5
            /\ Distance(s.neutral * 10, c.NEUTRAL) <= 5
            /\ Distance(s.defensive * 10, c.DEFENSIVE) <= 5
            /\ Distance(DisplayedTotal * 10, ConfidenceTotal) <= 15
            /\ (c.AGGRESSIVE % 10 = 0 /\ c.NEUTRAL % 10 = 0 /\ c.DEFENSIVE % 10 = 0)
                  => DisplayedTotal * 10 = ConfidenceTotal

\* 0.333, 0.333 and 0.334 (total 100 percent) are displayed as 33, 33 and 33
C11_Witness ==
    /\ HasConfidence
    /\ currentLap.ML_Confidence =
          [AGGRESSIVE |-> 333, NEUTRAL |-> 333, DEFENSIVE |-> 334]
    /\ DisplayedTotal = 99

Values(strategyObj) ==
    {strategyObj.aggressive, strategyObj.neutral, strategyObj.defensive}

\* C12: the classes flagged as highest are exactly the classes whose value is
\* the maximum of the three; at least one is flagged, and all tied maxima are
C12_HighestFlagged ==
    LET s == strategyConfidence
        h == findHighestStrategies(s)
        IsMax(v) == \A w \in Values(s) : v >= w
    IN  /\ h.aggressive <=> IsMax(s.aggressive)
        /\ h.neutral <=> IsMax(s.neutral)
        /\ h.defensive <=> IsMax(s.defensive)
        /\ h.aggressive \/ h.neutral \/ h.defensive

\* a snapshot in which aggressive and neutral tie for the maximum
C12_Witness ==
    /\ HasConfidence
    /\ strategyConfidence.aggressive = strategyConfidence.neutral
    /\ strategyConfidence.aggressive > strategyConfidence.defensive
    /\ findHighestStrategies(strategyConfidence) =
          [aggressive |-> TRUE, neutral |-> TRUE, defensive |-> FALSE]

\* C13 as stated: a snapshot with track_temp 37 is displayed as 98.6 Fahrenheit
C13_BodyTemperature ==
    (currentLap # NullLap /\ currentLap.track_temp = 37) =>
        temperature.fahrenheit * 10 = 986

\* C13 amended: the displayed Fahrenheit value is C * 9/5 + 32 rounded to the
\* nearest integer, so a snapshot with track_temp 37 is displayed as 99
C13_RoundedFahrenheit ==
    currentLap # NullLap =>
        LET exact == (currentLap.track_temp * 18) + 320   \* in tenths
            shown == temperature.fahrenheit * 10
        IN  /\ exact - 5 < shown
            /\ shown <= exact + 5
            /\ currentLap.track_temp = 37 => temperature.fahrenheit = 99

\* the snapshot with track_temp 37 is on display
C13_Witness ==
    /\ currentLap # NullLap
    /\ currentLap.track_temp = 37
    /\ temperature = [fahrenheit |-> 99, celsius |-> 37]

\* C14: the error set by a failed metadata load stays set through every later
\* operation of the session
C14_MetadataErrorPersists ==
    [][error = MetadataError => error' = MetadataError]_vars

\* C15: after the metadata load has failed the dashboard stays usable: a
\* completed Start issues a feed request
C15_UsableWithoutMetadata ==
    [][(raceInfo = Null /\ ~infoPending /\ lastOp'.op = "startRace") =>
          /\ isRaceActive'
          /\ Len(feedRequests') = Len(feedRequests) + 1
      ]_vars

\* C16: a startRace whose reset request failed ends with the race active, the
\* history empty, no snapshot and no error, and with the first feed request
\* issued
C16_ResetFailureNotSurfaced ==
    [][(lastOp'.op = "startRace" /\ ~lastOp'.ok) =>
          /\ isRaceActive'
          /\ lapTimeHistory' = <<>>
          /\ currentLap' = NullLap
          /\ error' = Null
          /\ Len(feedRequests') = Len(feedRequests) + 1
      ]_vars

\* C17: feed requests are not guarded against overlap: a timer tick with the
\* metadata loaded issues a request however many are already in flight, and a
\* response overtaken by a later request's response is applied like any other
C17_OverlapUnguarded ==
    /\ [][(lastOp'.op = "tick" /\ raceInfo # Null) =>
             /\ Len(feedRequests') = Len(feedRequests) + 1
             /\ IsPrefix(feedRequests, feedRequests')
         ]_vars
    /\ [][(FeedSucceeded(lastOp') /\ lastOp'.late) =>
             /\ currentLap' # NullLap
             /\ lapTimeHistory' = AppendLap(lapTimeHistory, currentLap')
         ]_vars

\* two requests were in flight and the response of the earlier one arrived
\* last: the history is out of order and the snapshot shown is the older one
C17_Witness ==
    /\ FeedSucceeded(lastOp)
    /\ lastOp.late
    /\ Len(lapTimeHistory) = 2
    /\ lapTimeHistory[1].lap > lapTimeHistory[2].lap
    /\ currentLap # NullLap
    /\ currentLap.current_lap = lapTimeHistory[2].lap

\* C18: a request in flight leaves only by being answered (Pause and the
\* deactivating branches abort nothing), and a snapshot received while the race
\* is inactive is still applied to currentLap, raceStatus and lapTimeHistory
C18_InFlightNotAborted ==
    /\ [][Len(feedRequests') < Len(feedRequests) =>
             /\ lastOp'.op = "fetchNextLap"
             /\ Len(feedRequests') = Len(feedRequests) - 1
         ]_vars
    /\ [][(FeedSucceeded(lastOp') /\ ~isRaceActive) =>
             /\ ~isRaceActive'
             /\ currentLap' # NullLap
             /\ raceStatus' = currentLap'.status
             /\ lapTimeHistory' = AppendLap(lapTimeHistory, currentLap')
         ]_vars

\* a lap received while the race is paused has been put on record
C18_Witness ==
    /\ FeedSucceeded(lastOp)
    /\ ~lastOp.flag
    /\ ~isRaceActive
    /\ error = Null
    /\ currentLap # NullLap
    /\ lapTimeHistory # <<>>
    /\ lapTimeHistory[Len(lapTimeHistory)].lap = currentLap.current_lap

\* C19 as stated: while isRaceActive is false no invocation of the fetch
\* issues a feed request
C19_NoFetchWhileInactive ==
    [][~isRaceActive => Len(feedRequests') <= Len(feedRequests)]_vars

\* C19 amended: the guard is the timer, armed only while the race is active;
\* from an inactive race a feed request is issued only by startRace, which
\* activates the race in the same step
C19_OnlyStartFetchesWhileInactive ==
    /\ [](TimerArmed => isRaceActive)
    /\ [][(~isRaceActive /\ Len(feedRequests') > Len(feedRequests)) =>
             lastOp'.op = "startRace" /\ isRaceActive'
         ]_vars

\* the first Start of the session has issued the only request in flight
C19_Witness ==
    /\ lastOp.op = "startRace"
    /\ lastOp.flag
    /\ isRaceActive
    /\ raceStatus = "Ready"
    /\ Len(feedRequests) = 1
    /\ ~feedRequests[1].beforeRestart
    /\ pendingStart[TRUE] + pendingStart[FALSE] = 0

\* a timer tick whose fetch goes out as a feed request
TickIssues == Tick /\ raceInfo # Null

\* C20: exactly one polling timer is armed while the race is active and none
\* while it is inactive; if the race stays active the timer's invocation of the
\* fetch is the latest event again and again, and with the metadata loaded it
\* issues a new feed request again and again
C20_TimerKeepsPolling ==
    /\ [](timers = IF isRaceActive THEN 1 ELSE 0)
    /\ (<>[]isRaceActive => []<>(lastOp.op = "tick"))
    /\ (<>[](isRaceActive /\ raceInfo # Null) => []<><<TickIssues>>_vars)

\* the armed timer has just issued a second request while the first one of the
\* running race is still in flight
C20_Witness ==
    /\ lastOp.op = "tick"
    /\ lastOp.flag
    /\ isRaceActive
    /\ timers = 1
    /\ Len(feedRequests) = 2
    /\ \A k \in 1..2 : ~feedRequests[k].beforeRestart
    /\ lapTimeHistory # <<>>

\* C21: the history is append-only: in every step other than startRace the
\* previous history is a prefix of the next one, and startRace empties it
C21_AppendOnly ==
    [][IF lastOp'.op = "startRace"
       THEN lapTimeHistory' = <<>>
       ELSE IsPrefix(lapTimeHistory, lapTimeHistory')]_vars

\* a restart has emptied the history of a race that had received snapshots
C21_Witness ==
    /\ lastOp.op = "startRace"
    /\ raceStatus = "Active"
    /\ isRaceActive
    /\ lapTimeHistory = <<>>
    /\ currentLap = NullLap
    /\ feedRequests # <<>>
    /\ feedRequests[1].beforeRestart

\* C22: after a successful feed fetch currentLap is the received snapshot as a
\* whole, raceStatus is its status and the error state is empty, whether or
\* not its raw_lap_time is valid
C22_SnapshotReplaced ==
    [][FeedSucceeded(lastOp') =>
          /\ lastOp'.data # NullLap
          /\ currentLap' = lastOp'.data
          /\ raceStatus' = lastOp'.data.status
          /\ error' = Null
      ]_vars

\* a snapshot without a valid lap time has replaced the snapshot of the lap on
\* record
C22_Witness ==
    /\ FeedSucceeded(lastOp)
    /\ currentLap = lastOp.data
    /\ currentLap.raw_lap_time <= 0
    /\ currentLap.status = "Ready"
    /\ raceStatus = "Ready"
    /\ Len(lapTimeHistory) = 1
    /\ lapTimeHistory[1].lap # currentLap.current_lap

\* C23: immediately after a restart from the Finished state the race is active,
\* raceStatus is no longer 'Race Finished' and the error is empty
C23_RestartResetsStatus ==
    [][(raceStatus = "Race Finished" /\ lastOp'.op = "startRace") =>
          /\ isRaceActive'
          /\ raceStatus' # "Race Finished"
          /\ error' = Null
      ]_vars

\* C24: the response to a feed request issued before the latest startRace is
\* never applied: it changes neither the snapshot nor the history
C24_StaleResponseDropped ==
    [][(lastOp'.op = "fetchNextLap" /\ lastOp'.flag) =>
          UNCHANGED <<currentLap, lapTimeHistory>>]_vars

\* the number of startRace invocations waiting for POST /api/reset
PendingResets == pendingStart[TRUE] + pendingStart[FALSE]

\* C25: no feed request is issued while a POST /api/reset is outstanding: a
\* timer tick issues none while a reset is pending, and the request issued by a
\* completing startRace goes out only when no other reset is still pending
C25_ResetPrecedesFeed ==
    [][Len(feedRequests') > Len(feedRequests) =>
          IF lastOp'.op = "startRace"
          THEN PendingResets' = 0
          ELSE PendingResets = 0
      ]_vars

\* C26: in every state at least one of Start Race, Pause, Resume and Restart is
\* offered, and Pause is offered whenever the race is active
C26_ControlOffered ==
    /\ StartVisible \/ PauseVisible \/ ResumeVisible \/ RestartVisible
    /\ isRaceActive => PauseVisible

\* C27: a feed fetch that does not succeed (HTTP 410, another non-2xx status,
\* an unreadable body or a network error) leaves currentLap and lapTimeHistory
\* as they were; of the page state only isRaceActive, raceStatus and error may
\* change
C27_FailureKeepsData ==
    [][(lastOp'.op = "fetchNextLap" /\ ~FeedSucceeded(lastOp')) =>
          UNCHANGED <<currentLap, lapTimeHistory, raceInfo>>]_vars

\* the race has ended with HTTP 410 and the last snapshot and the laps on
\* record are still there
C27_Witness ==
    /\ lastOp.op = "fetchNextLap"
    /\ lastOp.status = 410
    /\ lastOp.ok
    /\ raceStatus = "Race Finished"
    /\ ~isRaceActive
    /\ currentLap # NullLap
    /\ lapTimeHistory # <<>>

Highlighted(bar) == bar.color # "bg-gray-500"

\* C28 as stated: the bar that is coloured is the bar of the class the
\* recommendation label names, and each bar's fill width is that class's
\* rounded percentage
C28_ColourMarksRecommended ==
    LET panel == StrategyPanel
    IN  /\ Highlighted(panel.aggressive) <=> panel.label = "Aggressive"
        /\ Highlighted(panel.neutral) <=> panel.label = "Neutral"
        /\ Highlighted(panel.defensive) <=> panel.label = "Defense"
        /\ panel.aggressive.width = strategyConfidence.aggressive
        /\ panel.neutral.width = strategyConfidence.neutral
        /\ panel.defensive.width = strategyConfidence.defensive

\* C28 amended: the coloured bars are the bars of the classes with the maximum
\* percentage, whatever the recommendation label says (the label is
\* ML_Recommendation, or 'N/A' without one), and each bar's fill width is that
\* class's rounded percentage
C28_ColourMarksMaximum ==
    LET panel == StrategyPanel
        s == strategyConfidence
        IsMax(v) == \A w \in Values(s) : v >= w
    IN  /\ Highlighted(panel.aggressive) <=> IsMax(s.aggressive)
        /\ Highlighted(panel.neutral) <=> IsMax(s.neutral)
        /\ Highlighted(panel.defensive) <=> IsMax(s.defensive)
        /\ panel.aggressive.width = s.aggressive
        /\ panel.neutral.width = s.neutral
        /\ panel.defensive.width = s.defensive
        /\ HasConfidence =>
              /\ panel.aggressive.width = Percent(currentLap.ML_Confidence.AGGRESSIVE)
              /\ panel.neutral.width = Percent(currentLap.ML_Confidence.NEUTRAL)
              /\ panel.defensive.width = Percent(currentLap.ML_Confidence.DEFENSIVE)
        /\ panel.label = IF currentLap = NullLap \/ currentLap.ML_Recommendation = ""
                         THEN "N/A" ELSE currentLap.ML_Recommendation

\* the label recommends Aggressive while the neutral bar is the coloured one
C28_Witness ==
    /\ currentLap # NullLap
    /\ StrategyPanel.label = "Aggressive"
    /\ ~Highlighted(StrategyPanel.aggressive)
    /\ Highlighted(StrategyPanel.neutral)
    /\ StrategyPanel.neutral.width = 80

\* the snapshot on display carries a red or yellow flag (Yellow, Red or Safety
\* Car status)
Flagged ==
    currentLap # NullLap /\ currentLap.flag_status \in {"Yellow", "Red", "Safety Car"}

\* C29: the flag panel renders the incident message exactly when the message
\* is non-empty and a red or yellow flag is shown; it blinks only under a red
\* or yellow flag with the warning-flash toggle enabled; the toggle starts
\* enabled and only the checkbox changes it, never a polling event
C29_FlagPanel ==
    /\ [](lastOp.op = "mount" => isWarningFlashEnabled)
    /\ [](FlagPanel.incident <=> (Flagged /\ currentLap.incident_message # ""))
    /\ [](FlagPanel.blinkClass # "" <=> (Flagged /\ isWarningFlashEnabled))
    /\ [][lastOp'.op # "toggleWarningFlash" =>
             isWarningFlashEnabled' = isWarningFlashEnabled]_vars

\* with the flash switched off, a polled snapshot under a red flag shows its
\* incident message without blinking
C29_Witness ==
    /\ FeedSucceeded(lastOp)
    /\ ~isWarningFlashEnabled
    /\ flagType = "red"
    /\ FlagPanel = [blinkClass |-> "", incident |-> TRUE]

\* C30: in every state the Fahrenheit value handed to the temperature panel is
\* the conversion of the Celsius value handed to it
C30_SameTemperature ==
    temperature.fahrenheit = celsiusToFahrenheit(temperature.celsius)

====
